---- MODULE Spec2Model ----
(***************************************************************************)
(* Agent Color: a window's title bar is colored by a palette index.        *)
(* Five variants of the extension are modelled side by side:               *)
(*   "spread"  src/src/extension.ts  random pick avoiding recent indices   *)
(*   "hash"    src/unnamed/part_000  hash(workspace name) mod 12           *)
(*   "decoration" src/unnamed/part_001 the same index shown as a border    *)
(*             on the editors and a status-bar indicator, no title bar     *)
(*   "status"  src/unnamed/part_002  "hash" plus a status-bar indicator    *)
(*   "worktree" src/unnamed/part_003 the same, in linked worktrees only    *)
(* A JavaScript value that may be undefined is a record [def |-> FALSE]    *)
(* or [def |-> TRUE, val |-> v].                                           *)
(***************************************************************************)
EXTENDS Integers, Sequences, FiniteSets, TLC

VARIABLES
  variant,              \* which variant of the extension is installed
  name,                 \* name[w]: getWorkspaceName() of window w
  workspaceState,       \* workspaceState[w]: "agentColor.index" / "agentColor.override"
  usedIndices,          \* globalState "agentColor.usedIndices"
  colorCustomizations,  \* colorCustomizations[w]: workbench.colorCustomizations of w
  registered,           \* registered[w]: the commands of w are registered
  applied,              \* applied[w]: index of the latest apply since the last clear
  picks,                \* number of pickIndex calls so far
  lastOp,               \* the operation that ran last: its name, its window, whether
                        \* it called pickIndex, whether a color was applied before it
  repo,                 \* the repository around the workspace root
  exclude,              \* <gitDir>/info and <gitDir>/info/exclude
  skipWorktree,         \* the skip-worktree bit of .vscode/settings.json
  raised,               \* the operation that ran last threw
  statusItem,           \* the status bar item of the current activation
  reading,              \* reading[w]: the history window w read inside pickIndex
                        \* and has not yet written back
  hashRun,              \* the loop of hash(str): the string, the characters
                        \* consumed, the accumulator h
  decoration            \* borderColor of the editor decoration of the current
                        \* activation

vars == <<variant, name, workspaceState, usedIndices, colorCustomizations,
          registered, applied, picks, lastOp, repo, exclude, skipWorktree,
          raised, statusItem, reading, hashRun, decoration>>

(***************************************************************************)
(* Bounds of the exploration.                                              *)
(***************************************************************************)
MaxNameLen == 2       \* longest workspace name
RandDenom == 12       \* Math.random() ranges over k / RandDenom, k in 0..RandDenom-1
MaxPicks == 2         \* pickIndex calls explored with every random draw
LongRunPicks == 11    \* pickIndex calls explored with the lowest draw only
MaxExcludeLen == 3    \* longest exclude file the suppressor starts from, in tokens
MaxHashLen == 5       \* longest string hashed character by character

NameChars == {45, 97, 122}       \* char codes of "-", "a", "z"

None == [def |-> FALSE]
Some(v) == [def |-> TRUE, val |-> v]

Variants == {"spread", "hash", "decoration", "status", "worktree"}

\* two windows share the global state in the spread variant
WindowIds == {1, 2}

\* the deterministic variants share nothing between windows: one window is modelled
Windows(v) == IF v = "spread" THEN WindowIds ELSE {1}

RECURSIVE SeqsUpTo(_, _)
SeqsUpTo(S, n) ==
  IF n = 0 THEN {<<>>}
  ELSE LET shorter == SeqsUpTo(S, n - 1)
       IN shorter \cup {Append(s, c) : s \in shorter, c \in S}

Names == SeqsUpTo(NameChars, MaxNameLen)

(***************************************************************************)
(* Palette tables.                                                         *)
(***************************************************************************)
PALETTE(v) ==
  IF v = "spread"
  THEN << <<"#8B5CF6", "#FFFFFF">>, <<"#EC4899", "#FFFFFF">>,
          <<"#06B6D4", "#000000">>, <<"#F97316", "#000000">>,
          <<"#6366F1", "#FFFFFF">>, <<"#D946EF", "#FFFFFF">>,
          <<"#0EA5E9", "#000000">>, <<"#14B8A6", "#000000">>,
          <<"#A855F7", "#FFFFFF">>, <<"#F472B6", "#000000">>,
          <<"#2563EB", "#FFFFFF">>, <<"#E879F9", "#000000">> >>
  ELSE << <<"#0D0D6F", "#FFFFFF">>, <<"#FF6B00", "#000000">>,
          <<"#00E5FF", "#000000">>, <<"#99004D", "#FFFFFF">>,
          <<"#B388FF", "#000000">>, <<"#004D40", "#FFFFFF">>,
          <<"#FF69B4", "#000000">>, <<"#0055CC", "#FFFFFF">>,
          <<"#FF9E00", "#000000">>, <<"#E040FB", "#000000">>,
          <<"#1A237E", "#FFFFFF">>, <<"#00BFA5", "#000000">> >>

PaletteLength(v) == Len(PALETTE(v))

\* PALETTE[index % PALETTE.length]
PaletteEntry(v, index) == PALETTE(v)[(index % PaletteLength(v)) + 1]

PALETTE_NAMES ==
  << "Midnight Indigo", "Vivid Orange", "Electric Cyan", "Deep Magenta",
     "Soft Lavender", "Dark Teal", "Hot Pink", "Strong Blue", "Amber",
     "Vivid Fuchsia", "Deep Navy", "Bright Teal" >>

\* `$(circle-filled) ${PALETTE_NAMES[index % PALETTE.length]}`
StatusText(v, index) ==
  "$(circle-filled) " \o PALETTE_NAMES[(index % PaletteLength(v)) + 1]

(***************************************************************************)
(* Name hasher.  A 32-bit value is kept as two 16-bit halves               *)
(* [hi, lo] = hi * 2^16 + lo, so that no intermediate exceeds 2^31.        *)
(***************************************************************************)
Half == 2^16

\* h << 5: the low 32 bits of h * 32, read as a signed 32-bit integer
ShiftLeft5(h) ==
  LET lo32 == h.lo * 32
      hiU == (h.hi * 32 + (lo32 \div Half)) % Half
  IN [hi |-> IF hiU >= Half \div 2 THEN hiU - Half ELSE hiU, lo |-> lo32 % Half]

\* a bug: ((h << 5) + h + c) | 0, a signed result
HashStep_Signed(h, c) ==
  LET s == ShiftLeft5(h)
      lo == s.lo + h.lo + c
      hiU == (s.hi + h.hi + (lo \div Half)) % Half
  IN [hi |-> IF hiU >= Half \div 2 THEN hiU - Half ELSE hiU, lo |-> lo % Half]

\* ((h << 5) + h + c) >>> 0
HashStep(h, c) ==
  LET s == ShiftLeft5(h)
      lo == s.lo + h.lo + c
      hi == s.hi + h.hi + (lo \div Half)
  IN [hi |-> hi % Half, lo |-> lo % Half]

RECURSIVE HashFrom(_, _, _)
HashFrom(h, str, i) ==
  IF i > Len(str) THEN h ELSE HashFrom(HashStep(h, str[i]), str, i + 1)

hash(str) == HashFrom([hi |-> 0, lo |-> 5381], str, 1)

\* h % n for a 32-bit h held as halves
Mod32(h, n) == ((h.hi % n) * (Half % n) + (h.lo % n)) % n

colorIndexForName(v, str) == Mod32(hash(str), PaletteLength(v))

\* JavaScript truthiness of `name`: undefined and "" are falsy
Truthy(n) == n.def /\ Len(n.val) > 0

(***************************************************************************)
(* Presentation applier.                                                   *)
(***************************************************************************)
TitleBarKeys ==
  {"titleBar.activeBackground", "titleBar.activeForeground",
   "titleBar.inactiveBackground", "titleBar.inactiveForeground"}

StatusBarKeys ==
  {"statusBar.background", "statusBar.foreground",
   "statusBar.debuggingBackground", "statusBar.debuggingForeground",
   "statusBar.noFolderBackground", "statusBar.noFolderForeground"}

\* keysToRemove / COLOR_KEYS
keysToRemove(v) ==
  IF v = "spread" THEN TitleBarKeys \cup StatusBarKeys ELSE TitleBarKeys

\* the `colors` record built by applyColor / applyTitleBarColor
colors(v, bg, fg) ==
  [k \in keysToRemove(v) |->
     CASE k = "titleBar.activeBackground" -> bg
       [] k = "titleBar.activeForeground" -> fg
       [] k = "titleBar.inactiveBackground" -> bg \o "CC"
       [] k = "titleBar.inactiveForeground" -> fg \o "AA"
       [] k \in {"statusBar.background", "statusBar.debuggingBackground",
                 "statusBar.noFolderBackground"} -> bg
       [] OTHER -> fg]

\* { ...(config.get("colorCustomizations") || {}) }
getExistingCustomizations(cfg) == IF cfg.def THEN cfg.val ELSE <<>>

\* a bug: { ...b, ...a }
Spread_FirstWins(a, b) ==
  [k \in DOMAIN a \cup DOMAIN b |-> IF k \in DOMAIN a THEN a[k] ELSE b[k]]

\* { ...a, ...b }
Spread(a, b) ==
  [k \in DOMAIN a \cup DOMAIN b |-> IF k \in DOMAIN b THEN b[k] ELSE a[k]]

\* a bug: the existing mapping is overwritten
applyTitleBarColor_NoMerge(v, cfg, bg, fg) == Some(colors(v, bg, fg))

applyTitleBarColor(v, cfg, bg, fg) ==
  Some(Spread(getExistingCustomizations(cfg), colors(v, bg, fg)))

applyColor(v, cfg, index) ==
  applyTitleBarColor(v, cfg, PaletteEntry(v, index)[1], PaletteEntry(v, index)[2])

\* a bug: an empty remainder is written back as an empty mapping
clearColor_KeepsEmpty(v, cfg) ==
  LET existing == getExistingCustomizations(cfg)
  IN Some([k \in DOMAIN existing \ keysToRemove(v) |-> existing[k]])

\* a bug: the whole setting is removed
clearColor_DropsAll(v, cfg) == None

clearColor(v, cfg) ==
  LET existing == getExistingCustomizations(cfg)
      rest == [k \in DOMAIN existing \ keysToRemove(v) |-> existing[k]]
  IN IF Cardinality(DOMAIN rest) > 0 THEN Some(rest) ELSE None

(***************************************************************************)
(* Color index selector, spread policy.                                    *)
(***************************************************************************)
\* Array.from({ length: n }, (_, i) => i)
Indices(n) == [i \in 1..n |-> i - 1]

Includes(s, x) == \E i \in 1..Len(s) : s[i] = x

\* s.slice(-n), n > 0
LastN(s, n) == IF Len(s) <= n THEN s ELSE SubSeq(s, Len(s) - n + 1, Len(s))

\* Math.floor(Math.random() * m) with Math.random() = r / RandDenom
RandomBelow(r, m) == (r * m) \div RandDenom

\* a bug: the history is trimmed to the palette length
HistoryBound_Full(v) == PaletteLength(v)

\* Math.floor(PALETTE.length * 0.75)
HistoryBound(v) == (PaletteLength(v) * 3) \div 4

\* a bug: the history is not consulted
Pool_Unfiltered(v, used) == Indices(PaletteLength(v))

Pool(v, used) ==
  LET all == Indices(PaletteLength(v))
      available == SelectSeq(all, LAMBDA i : ~Includes(used, i))
  IN IF Len(available) > 0 THEN available ELSE all

\* pickIndex: the index returned and the history written back
pickIndex(v, stored, r) ==
  LET used == IF stored.def THEN stored.val ELSE <<>>
      pool == Pool(v, used)
      index == pool[RandomBelow(r, Len(pool)) + 1]
  IN [index |-> index,
      updatedUsed |-> LastN(Append(used, index), HistoryBound(v))]

(***************************************************************************)
(* Color index selector, deterministic policy.                             *)
(***************************************************************************)
\* a bug: the hash of the name is tried before the override
ActivationIndex_NameFirst(v, n, override) ==
  IF Truthy(n) THEN Some(colorIndexForName(v, n.val))
  ELSE override

\* a bug: without an override nothing is applied
ActivationIndex_OverrideOnly(v, n, override) == override

\* the index activation applies: the override, else the hash of the name
ActivationIndex(v, n, override) ==
  IF override.def THEN override
  ELSE IF Truthy(n) THEN Some(colorIndexForName(v, n.val))
  ELSE None

RerollBase(v, n) == IF Truthy(n) THEN colorIndexForName(v, n.val) ELSE 0

\* a bug: the offset ranges over 1..PALETTE.length
RerollOffset_TooWide(v, r) == 1 + RandomBelow(r, PaletteLength(v))

\* 1 + Math.floor(Math.random() * (PALETTE.length - 1))
RerollOffset(v, r) == 1 + RandomBelow(r, PaletteLength(v) - 1)

RerollIndex(v, n, r) == (RerollBase(v, n) + RerollOffset(v, r)) % PaletteLength(v)

(***************************************************************************)
(* Git visibility suppressor.  The exclude file is a sequence of tokens:   *)
(* the text ".vscode/settings.json", a line feed, a blank, other text.     *)
(* The repository around the workspace root is the record                  *)
(*   [dotGit, tracked, gitRuns, fault]: what <root>/.git is, whether the   *)
(* settings file is tracked, whether the git command can be spawned, and   *)
(* which filesystem call fails.                                            *)
(***************************************************************************)
EXCLUDE_ENTRY == ".vscode/settings.json"

ExcludeChars == {EXCLUDE_ENTRY, "\n", " ", "#"}

ExcludeContents == SeqsUpTo(ExcludeChars, MaxExcludeLen)

\* content.split("\n")
RECURSIVE Split(_)
Split(content) ==
  IF content = <<>> THEN << <<>> >>
  ELSE LET rest == Split(Tail(content))
       IN IF Head(content) = "\n" THEN << <<>> >> \o rest
          ELSE << <<Head(content)>> \o Head(rest) >> \o Tail(rest)

RECURSIVE TrimStart(_)
TrimStart(line) ==
  IF line # <<>> /\ Head(line) = " " THEN TrimStart(Tail(line)) ELSE line

RECURSIVE TrimEnd(_)
TrimEnd(line) ==
  IF line # <<>> /\ line[Len(line)] = " "
  THEN TrimEnd(SubSeq(line, 1, Len(line) - 1)) ELSE line

\* line.trim()
Trim(line) == TrimEnd(TrimStart(line))

\* content.split("\n").some((line) => line.trim() === EXCLUDE_ENTRY)
HasEntry(content) ==
  \E i \in DOMAIN Split(content) : Trim(Split(content)[i]) = <<EXCLUDE_ENTRY>>

\* content.length > 0 && !content.endsWith("\n") ? "\n" : ""
LeadingNewline(content) ==
  IF Len(content) > 0 /\ content[Len(content)] # "\n" THEN <<"\n">> ELSE <<>>

\* the file after appendFileSync(excludePath, `${newline}${EXCLUDE_ENTRY}\n`)
Appended(content) == content \o LeadingNewline(content) \o <<EXCLUDE_ENTRY, "\n">>

\* the outcome of a block of statements: whether it threw, the exclude
\* file and the skip-worktree marker it leaves behind
Outcome(threw, ex, skip) == [threw |-> threw, exclude |-> ex, skip |-> skip]

\* a bug: no try/catch around the block
Catch_Rethrow(outcome) == outcome

\* try { ... } catch { }
Catch(outcome) == [outcome EXCEPT !.threw = FALSE]

\* info/ created if missing, the exclude file read if present, the entry
\* appended if no line equals it
appendExclude(r, ex, skip) ==
  IF ~ex.info /\ r.fault = "mkdir" THEN Outcome(TRUE, ex, skip)
  ELSE LET made == [ex EXCEPT !.info = TRUE]
       IN IF made.file.def /\ r.fault = "read" THEN Outcome(TRUE, made, skip)
          ELSE LET content == IF made.file.def THEN made.file.val ELSE <<>>
               IN IF HasEntry(content) THEN Outcome(FALSE, made, skip)
                  ELSE IF r.fault = "append" THEN Outcome(TRUE, made, skip)
                  ELSE Outcome(FALSE,
                               [made EXCEPT !.file = Some(Appended(content))],
                               skip)

\* spawnSync("git", ["ls-files", "--error-unmatch", ...]).status === 0
isTracked(r) == r.gitRuns /\ r.tracked

\* part_000 resolveGitDir: a path unless .git is missing or holds no gitdir line
resolveGitDir(r) == r.dotGit \in {"dir", "file"}

\* part_003 getWorktreeGitDir: a path only when .git is a file with a gitdir line
getWorktreeGitDir(r) == r.dotGit = "file"

\* part_000 ensureGitExclude
ensureGitExclude(r, ex, skip) ==
  IF ~resolveGitDir(r) THEN Outcome(FALSE, ex, skip)
  ELSE Catch(IF isTracked(r) THEN Outcome(FALSE, ex, skip)
             ELSE appendExclude(r, ex, skip))

\* part_002 hideFromGit(workspaceRoot)
hideFromGitRoot(r, ex, skip) ==
  Catch(IF isTracked(r) THEN Outcome(FALSE, ex, TRUE)
        ELSE IF r.dotGit = "missing" THEN Outcome(TRUE, ex, skip)
        ELSE IF r.dotGit = "nogitdir" THEN Outcome(FALSE, ex, skip)
        ELSE appendExclude(r, ex, skip))

\* part_003 hideFromGit(gitDir)
hideFromGitDir(r, ex, skip) == Catch(appendExclude(r, ex, skip))

\* the suppressor of variant v
hideFromGit(v, r, ex, skip) ==
  CASE v = "hash" -> ensureGitExclude(r, ex, skip)
    [] v = "status" -> hideFromGitRoot(r, ex, skip)
    [] v = "worktree" -> hideFromGitDir(r, ex, skip)
    [] OTHER -> Outcome(FALSE, ex, skip)

(***************************************************************************)
(* Initial state: a fresh install.  Nothing is persisted; the workspace    *)
(* settings may already hold color customizations of the user.             *)
(***************************************************************************)
InitialCustomizations ==
  { None,
    Some(<<>>),
    Some([k \in {"editor.background"} |-> "#101010"]),
    Some([k \in {"editor.background", "statusBar.background",
                 "titleBar.activeBackground"} |->
            CASE k = "editor.background" -> "#101010"
              [] k = "statusBar.background" -> "#202020"
              [] OTHER -> "#303030"]) }

\* no folder open (undefined) or the last path segment of the first folder;
\* the spread variant never reads the name, one named folder stands for all
InitNames(v) ==
  IF v = "spread" THEN {None, Some(<<97>>)} ELSE {None} \cup {Some(s) : s \in Names}

Op(op, w, picked, colored) ==
  [op |-> op, ws |-> w, picked |-> picked, colored |-> colored]

\* every workspace name, and none
AnyName == {None} \cup {Some(s) : s \in Names}

Repos ==
  { r \in [dotGit : {"missing", "dir", "file", "nogitdir"},
           tracked : BOOLEAN, gitRuns : BOOLEAN,
           fault : {"none", "mkdir", "read", "append"}] :
      r.tracked => r.dotGit # "nogitdir" }

\* a linked worktree with git at hand and the settings file untracked
LinkedWorktree ==
  [dotGit |-> "file", tracked |-> FALSE, gitRuns |-> TRUE, fault |-> "none"]

\* neither info/ nor info/exclude exists
NoExclude == [info |-> FALSE, file |-> None]

ExcludeFiles ==
  {NoExclude} \cup
  {[info |-> TRUE, file |-> f] :
     f \in {None} \cup {Some(c) : c \in ExcludeContents}}

\* the state before the first activation, for the variants vs, the names ns,
\* the customizations cs, the repositories rs and the exclude files xs
Begin(vs, ns, cs, rs, xs) ==
  /\ variant \in vs
  /\ \E n \in InitNames(variant) \cap ns : name = [w \in Windows(variant) |-> n]
  /\ workspaceState = [w \in Windows(variant) |-> None]
  /\ usedIndices = None
  /\ \E c \in cs : colorCustomizations = [w \in Windows(variant) |-> c]
  /\ registered = [w \in Windows(variant) |-> FALSE]
  /\ applied = [w \in Windows(variant) |-> None]
  /\ picks = 0
  /\ lastOp = Op("init", 0, FALSE, FALSE)
  /\ repo \in rs
  /\ exclude \in xs
  /\ skipWorktree = FALSE
  /\ raised = FALSE
  /\ statusItem = None
  /\ reading = [w \in Windows(variant) |-> None]
  /\ decoration = None

\* hash() before its first iteration: let h = 5381, i = 0
HashStart(str) == [str |-> str, i |-> 0, h |-> [hi |-> 0, lo |-> 5381]]

Init ==
  /\ Begin(Variants, AnyName, InitialCustomizations, {LinkedWorktree}, {NoExclude})
  /\ hashRun = HashStart(<<>>)

(***************************************************************************)
(* activate: runs when window w opens or reloads.                          *)
(***************************************************************************)
\* a bug: the stored index is ignored
NoStoredIndex_Always(w) == TRUE

\* index === undefined
NoStoredIndex(w) == ~workspaceState[w].def

ActivateSpread(w, draws, cap) ==
  /\ variant = "spread"
  /\ IF ~NoStoredIndex(w)
     THEN /\ colorCustomizations' =
               [colorCustomizations EXCEPT
                  ![w] = applyColor(variant, @, workspaceState[w].val)]
          /\ applied' = [applied EXCEPT ![w] = workspaceState[w]]
          /\ UNCHANGED <<workspaceState, usedIndices, picks>>
     ELSE /\ picks < cap
          /\ \E r \in draws :
               LET p == pickIndex(variant, usedIndices, r)
               IN /\ usedIndices' = Some(p.updatedUsed)
                  /\ workspaceState' = [workspaceState EXCEPT ![w] = Some(p.index)]
                  /\ colorCustomizations' =
                       [colorCustomizations EXCEPT
                          ![w] = applyColor(variant, @, p.index)]
                  /\ applied' = [applied EXCEPT ![w] = Some(p.index)]
          /\ picks' = picks + 1
  /\ registered' = [registered EXCEPT ![w] = TRUE]
  /\ raised' = FALSE
  /\ UNCHANGED <<exclude, skipWorktree, statusItem, decoration>>

\* whether variant v shows a status bar item
HasStatusItem(v) == v \in {"decoration", "status", "worktree"}

\* the item after statusItem.text = ...; statusItem.show()
Shown(v, index) == Some([visible |-> TRUE, text |-> StatusText(v, index)])

ActivateHash(w) ==
  /\ variant \in {"hash", "status", "worktree"}
  /\ LET root == name[w].def
         index == ActivationIndex(variant, name[w], workspaceState[w])
         \* part_002 and part_003 return early; part_000 never does
         enters == CASE variant = "hash" -> TRUE
                     [] variant = "status" -> index.def
                     [] OTHER -> root /\ getWorktreeGitDir(repo) /\ index.def
         hid == IF root /\ enters
                THEN hideFromGit(variant, repo, exclude, skipWorktree)
                ELSE Outcome(FALSE, exclude, skipWorktree)
         \* part_000 calls the suppressor before the applier, the others after
         colored == index.def /\ enters /\ (variant = "hash" => ~hid.threw)
         finishes == enters /\ ~hid.threw
     IN /\ IF colored
           THEN /\ colorCustomizations' =
                     [colorCustomizations EXCEPT
                        ![w] = applyColor(variant, @, index.val)]
                /\ applied' = [applied EXCEPT ![w] = index]
           ELSE UNCHANGED <<colorCustomizations, applied>>
        /\ exclude' = hid.exclude
        /\ skipWorktree' = hid.skip
        /\ raised' = hid.threw
        /\ statusItem' = IF HasStatusItem(variant) /\ finishes
                         THEN Shown(variant, index.val) ELSE None
        /\ registered' = [registered EXCEPT ![w] = finishes]
  /\ UNCHANGED <<workspaceState, usedIndices, picks, decoration>>

\* a color is shown in window w: the border of part_001, else owned keys
\* written by the applier
Colored(w) == IF variant = "decoration" THEN decoration.def ELSE applied[w].def

\* part_001: the border decoration and the status item are created for the
\* index; neither colorCustomizations nor the repository is touched
ActivateDecoration(w) ==
  /\ variant = "decoration"
  /\ LET index == ActivationIndex(variant, name[w], workspaceState[w])
     IN /\ decoration' = IF index.def
                         THEN Some(PaletteEntry(variant, index.val)[1]) ELSE None
        /\ statusItem' = IF index.def THEN Shown(variant, index.val) ELSE None
        /\ registered' = [registered EXCEPT ![w] = index.def]
  /\ raised' = FALSE
  /\ UNCHANGED <<workspaceState, usedIndices, picks, colorCustomizations,
                 applied, exclude, skipWorktree>>

Activate(w, draws, cap) ==
  /\ w \in Windows(variant)
  /\ CASE variant = "spread" -> ActivateSpread(w, draws, cap)
       [] variant = "decoration" -> ActivateDecoration(w)
       [] OTHER -> ActivateHash(w)
  /\ lastOp' = Op("activate", w, picks' # picks, Colored(w))
  /\ UNCHANGED <<variant, name, repo, reading, hashRun>>

(***************************************************************************)
(* agentColor.reroll                                                       *)
(***************************************************************************)
Reroll(w, draws, cap) ==
  /\ w \in Windows(variant)
  /\ registered[w]
  /\ \E r \in draws :
       IF variant = "spread"
       THEN /\ picks < cap
            /\ LET p == pickIndex(variant, usedIndices, r)
               IN /\ usedIndices' = Some(p.updatedUsed)
                  /\ workspaceState' = [workspaceState EXCEPT ![w] = Some(p.index)]
                  /\ colorCustomizations' =
                       [colorCustomizations EXCEPT
                          ![w] = applyColor(variant, @, p.index)]
                  /\ applied' = [applied EXCEPT ![w] = Some(p.index)]
            /\ picks' = picks + 1
            /\ raised' = FALSE
            /\ UNCHANGED <<exclude, skipWorktree, statusItem>>
       ELSE IF variant = "decoration"
       THEN \* part_001: the override is stored, to be applied on reload
            /\ workspaceState' =
                 [workspaceState EXCEPT ![w] = Some(RerollIndex(variant, name[w], r))]
            /\ raised' = FALSE
            /\ UNCHANGED <<colorCustomizations, applied, exclude, skipWorktree,
                           statusItem, usedIndices, picks>>
       ELSE /\ LET newIndex == RerollIndex(variant, name[w], r)
                   \* only part_002 calls the suppressor again
                   hid == IF variant = "status" /\ name[w].def
                          THEN hideFromGit(variant, repo, exclude, skipWorktree)
                          ELSE Outcome(FALSE, exclude, skipWorktree)
               IN /\ workspaceState' = [workspaceState EXCEPT ![w] = Some(newIndex)]
                  /\ colorCustomizations' =
                       [colorCustomizations EXCEPT
                          ![w] = applyColor(variant, @, newIndex)]
                  /\ applied' = [applied EXCEPT ![w] = Some(newIndex)]
                  /\ exclude' = hid.exclude
                  /\ skipWorktree' = hid.skip
                  /\ raised' = hid.threw
                  \* statusItem.text = ...: show() is not called
                  /\ statusItem' =
                       IF HasStatusItem(variant) /\ ~hid.threw
                       THEN Some([statusItem.val EXCEPT
                                    !.text = StatusText(variant, newIndex)])
                       ELSE statusItem
            /\ UNCHANGED <<usedIndices, picks>>
  /\ lastOp' = Op("reroll", w, picks' # picks, Colored(w))
  /\ UNCHANGED <<variant, name, registered, repo, reading, hashRun, decoration>>

(***************************************************************************)
(* agentColor.clear                                                        *)
(***************************************************************************)
Clear(w) ==
  /\ w \in Windows(variant)
  /\ registered[w]
  /\ workspaceState' = [workspaceState EXCEPT ![w] = None]
  /\ IF variant = "decoration"
     THEN \* part_001: only the override is removed
          UNCHANGED <<colorCustomizations, applied, statusItem>>
     ELSE /\ colorCustomizations' =
               [colorCustomizations EXCEPT ![w] = clearColor(variant, @)]
          /\ applied' = [applied EXCEPT ![w] = None]
          \* statusItem.hide()
          /\ statusItem' = IF HasStatusItem(variant)
                           THEN Some([statusItem.val EXCEPT !.visible = FALSE])
                           ELSE statusItem
  /\ raised' = FALSE
  /\ lastOp' = Op("clear", w, FALSE, Colored(w))
  /\ UNCHANGED <<variant, name, usedIndices, registered, picks,
                 repo, exclude, skipWorktree, reading, hashRun, decoration>>

Draws == 0..(RandDenom - 1)

Next ==
  \E w \in WindowIds :
    \/ Activate(w, Draws, MaxPicks)
    \/ Reroll(w, Draws, MaxPicks)
    \/ Clear(w)

Spec == Init /\ [][Next]_vars

\* long runs: every pick takes the lowest draw
NextLongRun ==
  \E w \in WindowIds :
    \/ Activate(w, {0}, LongRunPicks)
    \/ Reroll(w, {0}, LongRunPicks)
    \/ Clear(w)

SpecLongRun == Init /\ [][NextLongRun]_vars

\* a named workspace in a repository whose settings file is untracked, over
\* every exclude file the suppressor may find
UntrackedRepos ==
  { r \in Repos : ~r.tracked /\ r.fault = "none" /\ r.dotGit \in {"dir", "file"} }

InitExclude ==
  /\ Begin({"hash", "status", "worktree"}, {Some(<<97>>)}, {None},
           UntrackedRepos, ExcludeFiles)
  /\ hashRun = HashStart(<<>>)

SpecExclude == InitExclude /\ [][Next]_vars

\* exclude files the failure cases start from: nothing, an empty info/, a
\* file without the entry, a file with it
FewExcludeFiles ==
  { NoExclude,
    [info |-> TRUE, file |-> None],
    [info |-> TRUE, file |-> Some(<<"#">>)],
    [info |-> TRUE, file |-> Some(<<EXCLUDE_ENTRY, "\n">>)] }

\* every repository, tracked or not, with every failure
InitGit ==
  /\ Begin({"hash", "status", "worktree"}, {None, Some(<<97>>)}, {None},
           Repos, FewExcludeFiles)
  /\ hashRun = HashStart(<<>>)

SpecGit == InitGit /\ [][Next]_vars

(***************************************************************************)
(* hash(str), one loop iteration per step.                                 *)
(***************************************************************************)
\* char codes 0, "a", "z" and the largest UTF-16 code unit
HashChars == {0, 97, 122, 65535}

HashInputs == SeqsUpTo(HashChars, MaxHashLen)

\* h = ((h << 5) + h + str.charCodeAt(i)) >>> 0; i++
HashLoop ==
  /\ hashRun.i < Len(hashRun.str)
  /\ hashRun' = [hashRun EXCEPT
                   !.h = HashStep(@, hashRun.str[hashRun.i + 1]),
                   !.i = @ + 1]
  /\ UNCHANGED <<variant, name, workspaceState, usedIndices, colorCustomizations,
                 registered, applied, picks, lastOp, repo, exclude, skipWorktree,
                 raised, statusItem, reading, decoration>>

InitHash ==
  /\ Begin({"hash"}, {None}, {None}, {LinkedWorktree}, {NoExclude})
  /\ \E str \in HashInputs : hashRun = HashStart(str)

SpecHash == InitHash /\ [][HashLoop]_vars

(***************************************************************************)
(* pickIndex of the spread variant with the read of the history (line 86)  *)
(* and its write (line 95) as separate steps: each window is a process of  *)
(* its own, and another window may write between the two.                  *)
(***************************************************************************)
\* window w enters pickIndex from activate (no stored index) or from reroll;
\* an activation runs in a window that has just opened or reloaded, whose
\* commands do not exist until registerCommand runs after the write
PickRead(w, op) ==
  /\ variant = "spread"
  /\ w \in Windows(variant)
  /\ ~reading[w].def
  /\ IF op = "activate" THEN NoStoredIndex(w) ELSE registered[w]
  /\ reading' = [reading EXCEPT ![w] = [def |-> TRUE, val |-> usedIndices, op |-> op]]
  /\ registered' = IF op = "activate"
                   THEN [registered EXCEPT ![w] = FALSE]
                   ELSE registered
  /\ UNCHANGED <<variant, name, workspaceState, usedIndices, colorCustomizations,
                 applied, picks, lastOp, repo, exclude, skipWorktree,
                 raised, statusItem, hashRun, decoration>>

\* window w leaves pickIndex: the history, the index and the color are written
PickWrite(w, draws, cap) ==
  /\ variant = "spread"
  /\ w \in Windows(variant)
  /\ reading[w].def
  /\ picks < cap
  /\ \E r \in draws :
       LET p == pickIndex(variant, reading[w].val, r)
       IN /\ usedIndices' = Some(p.updatedUsed)
          /\ workspaceState' = [workspaceState EXCEPT ![w] = Some(p.index)]
          /\ colorCustomizations' =
               [colorCustomizations EXCEPT ![w] = applyColor(variant, @, p.index)]
          /\ applied' = [applied EXCEPT ![w] = Some(p.index)]
  /\ picks' = picks + 1
  /\ registered' = [registered EXCEPT ![w] = TRUE]
  /\ reading' = [reading EXCEPT ![w] = None]
  /\ raised' = FALSE
  /\ lastOp' = Op(reading[w].op, w, TRUE, applied[w].def)
  /\ UNCHANGED <<variant, name, repo, exclude, skipWorktree, statusItem, hashRun,
                 decoration>>

\* the clear command of a window that is not inside pickIndex
ClearIdle(w) == ~reading[w].def /\ Clear(w)

\* every pick takes the lowest draw
RaceDraws == {0}

\* activate of a window that reloads with an index stored: pickIndex is not
\* entered, the stored color is applied and the commands are registered
ActivateStored(w) ==
  /\ ~reading[w].def
  /\ ~NoStoredIndex(w)
  /\ Activate(w, RaceDraws, LongRunPicks)

NextRace ==
  \E w \in WindowIds :
    \/ PickRead(w, "activate")
    \/ PickRead(w, "reroll")
    \/ PickWrite(w, RaceDraws, LongRunPicks)
    \/ ClearIdle(w)
    \/ ActivateStored(w)

InitRace ==
  /\ Begin({"spread"}, {Some(<<97>>)}, {None}, {LinkedWorktree}, {NoExclude})
  /\ hashRun = HashStart(<<>>)

SpecRace == InitRace /\ [][NextRace]_vars

(***************************************************************************)
(* Properties.                                                             *)
(***************************************************************************)
\* the deterministic variants that color the title bar
Deterministic == variant \in {"hash", "status", "worktree"}

\* the border and the status item of part_001 show palette entry i
DecorationShows(i) ==
  /\ decoration = Some(PALETTE(variant)[i + 1][1])
  /\ statusItem = Shown(variant, i)

\* the title bar of window w shows palette entry i
ShowsEntry(w, i) ==
  LET cfg == colorCustomizations[w]
  IN /\ cfg.def
     /\ {"titleBar.activeBackground", "titleBar.activeForeground"} \subseteq DOMAIN cfg.val
     /\ cfg.val["titleBar.activeBackground"] = PALETTE(variant)[i + 1][1]
     /\ cfg.val["titleBar.activeForeground"] = PALETTE(variant)[i + 1][2]

\* C1: in the deterministic variants an activation applies the stored override
\* when there is one, and otherwise, for a named workspace, the palette entry
\* hash(name) mod 12.
C1_ActivationIndex ==
  /\ (Deterministic /\ lastOp.op = "activate") =>
    LET w == lastOp.ws
    IN /\ workspaceState[w].def =>
            /\ ShowsEntry(w, workspaceState[w].val)
            /\ applied[w] = workspaceState[w]
       /\ (~workspaceState[w].def /\ Truthy(name[w])) =>
            /\ ShowsEntry(w, colorIndexForName(variant, name[w].val))
            /\ applied[w] = Some(colorIndexForName(variant, name[w].val))
  /\ (variant = "decoration" /\ lastOp.op = "activate") =>
       LET w == lastOp.ws
       IN /\ workspaceState[w].def => DecorationShows(workspaceState[w].val)
          /\ (~workspaceState[w].def /\ Truthy(name[w])) =>
               DecorationShows(colorIndexForName(variant, name[w].val))

\* an activation that applied a stored override different from the hash index
C1_Witness ==
  /\ Deterministic /\ lastOp.op = "activate"
  /\ Truthy(name[1]) /\ workspaceState[1].def
  /\ workspaceState[1].val # colorIndexForName(variant, name[1].val)
  /\ ShowsEntry(1, workspaceState[1].val)

\* C2: in the deterministic variants the index a reroll persists and applies
\* is in 0..11 and differs from the base index (hash(name) mod 12, or 0
\* without a name), whatever the random draw.
C2_RerollDiffersFromBase ==
  /\ (Deterministic /\ lastOp.op = "reroll") =>
    LET w == lastOp.ws
        base == IF Truthy(name[w]) THEN colorIndexForName(variant, name[w].val) ELSE 0
    IN /\ workspaceState[w].def
       /\ workspaceState[w].val \in 0..(PaletteLength(variant) - 1)
       /\ workspaceState[w].val # base
       /\ applied[w] = workspaceState[w]
       /\ ShowsEntry(w, workspaceState[w].val)
  /\ (variant = "decoration" /\ lastOp.op = "reroll") =>
       LET w == lastOp.ws
       IN /\ workspaceState[w].def
          /\ workspaceState[w].val \in 0..(PaletteLength(variant) - 1)
          /\ workspaceState[w].val # RerollBase(variant, name[w])

\* a reroll that wrapped around the end of the palette
C2_Witness ==
  /\ Deterministic /\ lastOp.op = "reroll"
  /\ Truthy(name[1])
  /\ workspaceState[1].def
  /\ workspaceState[1].val < colorIndexForName(variant, name[1].val)

\* C3: in the deterministic variants every reroll (here: of a named
\* workspace) persists an index different from the index that was applied
\* immediately before it.
C3_RerollChangesColor ==
  [][\A w \in WindowIds :
       (Deterministic /\ lastOp' = Op("reroll", w, FALSE, TRUE)
          /\ Truthy(name[w])) =>
         workspaceState'[w] # applied[w]]_vars

\* C4: in the spread variant the index a reroll persists differs from the
\* index the workspace held immediately before the command.
C4_RerollSwitchesColor ==
  [][\A w \in WindowIds :
       (variant = "spread" /\ lastOp'.op = "reroll" /\ lastOp'.ws = w
          /\ workspaceState[w].def) =>
         workspaceState'[w] # workspaceState[w]]_vars

\* C5: in the spread variant, when two first-time activations follow one
\* another, the second picks an index that is not in the stored history and
\* that differs from the index the first one picked.
C5_ConsecutiveWindowsDiffer ==
  [][\A w \in WindowIds :
       (variant = "spread" /\ lastOp' = Op("activate", w, TRUE, FALSE)) =>
         LET used == IF usedIndices.def THEN usedIndices.val ELSE <<>>
             index == workspaceState'[w].val
         IN /\ \A i \in 1..Len(used) : used[i] # index
            /\ (lastOp.op = "activate" /\ lastOp.picked) =>
                  index # workspaceState[lastOp.ws].val]_vars

\* window 2 was activated for the first time right after window 1
C5_Witness ==
  /\ variant = "spread"
  /\ lastOp = Op("activate", 2, TRUE, FALSE)
  /\ picks = 2
  /\ workspaceState[1].def /\ workspaceState[2].def
  /\ usedIndices = Some(<<workspaceState[1].val, workspaceState[2].val>>)

\* C6: in the spread variant an activation of a workspace that has a stored
\* index i applies PALETTE[i] without calling pickIndex and leaves the stored
\* index and the history unchanged; the stored index changes only by a
\* reroll or a clear of that workspace.
C6_ColorSticks ==
  [][\A w \in WindowIds :
       (variant = "spread" /\ workspaceState[w].def) =>
         /\ (lastOp'.op = "activate" /\ lastOp'.ws = w) =>
              /\ workspaceState' = workspaceState
              /\ usedIndices' = usedIndices
              /\ picks' = picks
              /\ ShowsEntry(w, workspaceState[w].val)'
         /\ workspaceState'[w] # workspaceState[w] =>
              (lastOp'.op \in {"reroll", "clear"} /\ lastOp'.ws = w)]_vars

\* window 1 was activated again with its stored index, after window 2 picked
C6_Witness ==
  /\ variant = "spread"
  /\ lastOp = Op("activate", 1, FALSE, TRUE)
  /\ workspaceState[1].def /\ workspaceState[2].def
  /\ picks = 2
  /\ ShowsEntry(1, workspaceState[1].val)

\* the mapping read from window w's setting, an absent setting read as empty
Existing(w) == IF colorCustomizations[w].def THEN colorCustomizations[w].val ELSE <<>>

OwnedKeys ==
  IF variant = "spread"
  THEN {"titleBar.activeBackground", "titleBar.activeForeground",
        "titleBar.inactiveBackground", "titleBar.inactiveForeground",
        "statusBar.background", "statusBar.foreground",
        "statusBar.debuggingBackground", "statusBar.debuggingForeground",
        "statusBar.noFolderBackground", "statusBar.noFolderForeground"}
  ELSE {"titleBar.activeBackground", "titleBar.activeForeground",
        "titleBar.inactiveBackground", "titleBar.inactiveForeground"}

\* C7: no operation adds, changes or deletes a key that is not an owned key,
\* whatever the existing mapping was (absent, empty, or holding other keys).
C7_ForeignKeysKept ==
  [][\A w \in Windows(variant) :
       \A k \in (DOMAIN Existing(w) \cup DOMAIN Existing(w)') \ OwnedKeys :
         /\ k \in DOMAIN Existing(w)
         /\ k \in DOMAIN Existing(w)'
         /\ Existing(w)'[k] = Existing(w)[k]]_vars

\* a color was applied and cleared again; the two other keys are still there
C7_Witness ==
  /\ Deterministic
  /\ lastOp = Op("clear", 1, FALSE, TRUE)
  /\ colorCustomizations[1].def
  /\ DOMAIN colorCustomizations[1].val = {"editor.background", "statusBar.background"}
  /\ colorCustomizations[1].val["statusBar.background"] = "#202020"

\* C8: after a clear nothing is persisted for the workspace, no owned key is
\* left in the mapping, and a mapping left without keys is removed (written
\* as undefined), not stored as an empty mapping.
C8_ClearRemovesAll ==
  lastOp.op = "clear" =>
    LET w == lastOp.ws
    IN /\ ~workspaceState[w].def
       /\ ~applied[w].def
       \* part_001 owns no key of the mapping and never writes it
       /\ (variant # "decoration" /\ colorCustomizations[w].def) =>
            /\ DOMAIN colorCustomizations[w].val \cap OwnedKeys = {}
            /\ DOMAIN colorCustomizations[w].val # {}

\* window 1 was colored by two picks (window 2 never opened), then cleared,
\* and its setting is removed
C8_Witness ==
  /\ variant = "spread"
  /\ lastOp = Op("clear", 1, FALSE, TRUE)
  /\ picks = 2
  /\ ~registered[2]
  /\ ~colorCustomizations[1].def
  /\ ~workspaceState[1].def

\* C9 as stated: a clear that runs while no color is applied (none was ever
\* applied, or none since the last clear) in a workspace with a folder
\* leaves the persisted index and the mapping as they were.
C9_ClearIsNoOp ==
  [][\A w \in WindowIds :
       (lastOp' = Op("clear", w, FALSE, FALSE)
          /\ (variant = "spread" \/ name[w].def)) =>
         /\ workspaceState'[w] = workspaceState[w]
         /\ Existing(w)' = Existing(w)]_vars

\* C9 amended: a clear that runs while no color is applied and the mapping
\* holds no owned key leaves the persisted index and the mapping as they
\* were (an empty mapping counts as absent); a clear directly after a clear
\* changes nothing at all.
C9_ClearOnCleanState ==
  [][\A w \in WindowIds :
       lastOp' = Op("clear", w, FALSE, FALSE) =>
         /\ workspaceState' = workspaceState
         /\ usedIndices' = usedIndices
         /\ DOMAIN Existing(w) \cap OwnedKeys = {} => Existing(w)' = Existing(w)
         /\ (lastOp.op = "clear" /\ lastOp.ws = w) =>
              colorCustomizations' = colorCustomizations]_vars

\* a second clear directly after a clear, with another key in the mapping
C9_Witness ==
  /\ lastOp = Op("clear", 1, FALSE, FALSE)
  /\ registered[1]
  /\ Truthy(name[1])
  /\ colorCustomizations[1] = Some([k \in {"editor.background"} |-> "#101010"])

\* C10: while a color is applied, the owned keys hold the values derived
\* from the palette entry applied last, and nothing of an earlier entry or
\* of an earlier value of the mapping.
C10_LatestEntryOnly ==
  \A w \in Windows(variant) :
    applied[w].def =>
      LET bg == PALETTE(variant)[applied[w].val + 1][1]
          fg == PALETTE(variant)[applied[w].val + 1][2]
          m == colorCustomizations[w].val
      IN /\ colorCustomizations[w].def
         /\ OwnedKeys \subseteq DOMAIN m
         /\ m["titleBar.activeBackground"] = bg
         /\ m["titleBar.activeForeground"] = fg
         /\ m["titleBar.inactiveBackground"] = bg \o "CC"
         /\ m["titleBar.inactiveForeground"] = fg \o "AA"
         /\ variant = "spread" =>
              /\ m["statusBar.background"] = bg
              /\ m["statusBar.foreground"] = fg
              /\ m["statusBar.debuggingBackground"] = bg
              /\ m["statusBar.debuggingForeground"] = fg
              /\ m["statusBar.noFolderBackground"] = bg
              /\ m["statusBar.noFolderForeground"] = fg

\* a reroll replaced the entry applied before, in a mapping that held values
\* of the user under two owned keys
C10_Witness ==
  /\ variant = "spread"
  /\ lastOp = Op("reroll", 1, TRUE, TRUE)
  /\ picks = 2
  /\ ~registered[2]
  /\ applied[1].def
  /\ colorCustomizations[1].def
  /\ "editor.background" \in DOMAIN colorCustomizations[1].val
  /\ colorCustomizations[1].val["statusBar.background"] # "#202020"

\* C11: with no workspace folder open, no operation persists an index or a
\* history entry or writes to colorCustomizations.
C11_NoFolderNoOp ==
  [][\A w \in WindowIds :
       (lastOp'.ws = w /\ lastOp'.op # "init" /\ ~name[w].def) =>
         /\ workspaceState'[w] = workspaceState[w]
         /\ usedIndices' = usedIndices
         /\ colorCustomizations'[w] = colorCustomizations[w]]_vars

(***************************************************************************)
(* Git visibility suppressor.                                              *)
(***************************************************************************)
Content(ex) == IF ex.file.def THEN ex.file.val ELSE <<>>

\* the number of lines equal to the entry
EntryLines(content) ==
  Cardinality({i \in DOMAIN Split(content) : Split(content)[i] = <<EXCLUDE_ENTRY>>})

IsPrefix(a, b) == Len(a) <= Len(b) /\ SubSeq(b, 1, Len(a)) = a

\* this step ran an operation of window w that called the suppressor
HideStep(w) ==
  /\ lastOp'.ws = w
  /\ name[w].def
  /\ \/ lastOp'.op = "activate" /\ variant = "hash"
     \/ lastOp'.op = "activate" /\ variant = "status" /\ applied'[w].def
     \/ lastOp'.op = "activate" /\ variant = "worktree" /\ applied'[w].def
     \/ lastOp'.op = "reroll" /\ variant = "status"

\* the suppressor has been called at least once
HideCalled ==
  /\ lastOp.op # "init"
  /\ Truthy(name[1])
  /\ variant \in {"hash", "status"} \/ (variant = "worktree" /\ getWorktreeGitDir(repo))

\* C12: for an untracked settings file and an exclude list holding at most
\* one line equal to the entry, a hide call leaves exactly one such line,
\* keeps the prior content as a prefix, writes exactly the entry and a line
\* feed when the file was missing, and a later call changes nothing.
C12_HideIsIdempotent ==
  [][\A w \in WindowIds :
       (HideStep(w) /\ repo \in UntrackedRepos) =>
         /\ IsPrefix(Content(exclude), Content(exclude'))
         /\ EntryLines(Content(exclude)) <= 1 => EntryLines(Content(exclude')) = 1
         /\ ~exclude.file.def => Content(exclude') = <<EXCLUDE_ENTRY, "\n">>
         /\ HideCalled => exclude' = exclude]_vars

\* C13: when the settings file is tracked, no operation appends to the
\* exclude list.
C13_TrackedNeverExcluded ==
  [][repo.tracked => Content(exclude') = Content(exclude)]_vars

\* activation reaches the applier in this repository
Activates == variant = "worktree" => (name[1].def /\ getWorktreeGitDir(repo))

\* C14: whatever the suppressor meets (no .git entry, a .git file without a
\* gitdir line, git failing, mkdir, read or append failing), the operation
\* that called it does not throw, and activation and reroll show the palette
\* entry of the selected index in the title bar.
C14_SuppressorNeverFails ==
  (Deterministic /\ Activates /\ lastOp.op \in {"activate", "reroll"}) =>
    LET w == lastOp.ws
        index == ActivationIndex(variant, name[w], workspaceState[w])
    IN /\ ~raised
       /\ index.def => (ShowsEntry(w, index.val) /\ applied[w] = index)
       /\ lastOp.op = "reroll" => workspaceState[w].def

\* part_000 activated where appending to the exclude file fails, and
\* part_002 rerolled where .git is missing: the title bar is colored
C14_Witness ==
  /\ Truthy(name[1]) /\ ~repo.tracked
  /\ \/ /\ variant = "hash" /\ lastOp.op = "activate"
        /\ repo.dotGit = "dir" /\ repo.fault = "append"
        /\ ~HasEntry(Content(exclude))
     \/ /\ variant = "status" /\ lastOp.op = "reroll"
        /\ repo.dotGit = "missing"
  /\ ~raised
  /\ ShowsEntry(1, ActivationIndex(variant, name[1], workspaceState[1]).val)

(***************************************************************************)
(* Name hasher against the djb2 reference.                                 *)
(***************************************************************************)
\* (acc * 33 + c) mod 2^32, on halves
Djb2Step(acc, c) ==
  LET lo == acc.lo * 33 + c
      hi == acc.hi * 33 + (lo \div Half)
  IN [hi |-> hi % Half, lo |-> lo % Half]

RECURSIVE Djb2(_)
Djb2(str) ==
  IF str = <<>> THEN [hi |-> 0, lo |-> 5381]
  ELSE Djb2Step(Djb2(SubSeq(str, 1, Len(str) - 1)), str[Len(str)])

\* C15: after every iteration the accumulator of hash equals the djb2
\* reference of the characters consumed, acc = (acc * 33 + c) mod 2^32 from
\* 5381, and lies in [0, 2^32); hash(str) is the accumulator after the last
\* character, and hash of the empty string is 5381.
C15_HashIsDjb2 ==
  /\ hashRun.h = Djb2(SubSeq(hashRun.str, 1, hashRun.i))
  /\ hashRun.h.hi \in 0..(Half - 1)
  /\ hashRun.h.lo \in 0..(Half - 1)
  /\ hashRun.i = Len(hashRun.str) => hash(hashRun.str) = hashRun.h
  /\ hash(<<>>) = [hi |-> 0, lo |-> 5381]

\* four or more characters hashed, the first the largest code unit, with a
\* result of 2^31 or more: h << 5 overflowed and the sign bit is set
C15_Witness ==
  /\ hashRun.i >= 4
  /\ hashRun.str[1] = 65535
  /\ hashRun.h.hi >= Half \div 2

(***************************************************************************)
(* History of the spread variant under interleaved windows.                *)
(***************************************************************************)
NoDuplicates(s) == \A i, j \in 1..Len(s) : i # j => s[i] # s[j]

\* a history with at most 9 entries, all indices of the palette, none
\* twice, which leaves 3 or more indices to pick from
SoundHistory(stored) ==
  stored.def =>
    /\ Len(stored.val) <= 9
    /\ \A i \in 1..Len(stored.val) : stored.val[i] \in 0..11
    /\ NoDuplicates(stored.val)
    /\ Cardinality({x \in 0..11 : ~Includes(stored.val, x)}) >= 3

\* C16: in the spread variant the stored history, and every copy of it a
\* window is picking from, has at most 9 entries, all in [0, 12), none
\* twice, so 3 or more indices are available and the fall-back to the full
\* range is never taken; windows may read the history before another writes.
C16_HistoryBounded ==
  variant = "spread" =>
    /\ SoundHistory(usedIndices)
    /\ \A w \in Windows(variant) : reading[w].def => SoundHistory(reading[w].val)

\* ten or more picks, a full history, and a window that read the history
\* before another window's write and has yet to write its own
C16_Witness ==
  /\ variant = "spread"
  /\ picks >= 10
  /\ usedIndices.def /\ Len(usedIndices.val) = 9
  /\ \E w \in Windows(variant) : reading[w].def /\ reading[w].val # usedIndices

(***************************************************************************)
(* Activation after clear.                                                 *)
(***************************************************************************)
\* the last operation on window w was a clear
Cleared(w) == registered[w] /\ ~workspaceState[w].def /\ ~applied[w].def

Last(s) == s[Len(s)]

\* the title-bar keys of the mapping cfg hold palette entry i
Shows(cfg, i) ==
  /\ cfg.def
  /\ {"titleBar.activeBackground", "titleBar.activeForeground"} \subseteq DOMAIN cfg.val
  /\ cfg.val["titleBar.activeBackground"] = PALETTE(variant)[i + 1][1]
  /\ cfg.val["titleBar.activeForeground"] = PALETTE(variant)[i + 1][2]

\* C17: an activation of a window whose color was cleared colors it again:
\* a named workspace gets PALETTE[hash(name) mod 12] in the deterministic
\* variants; in the spread variant an index is picked, persisted, pushed
\* onto the global history and applied.
C17_ClearThenActivateColors ==
  [][\A w \in WindowIds :
       (w \in Windows(variant) /\ Cleared(w) /\ name[w].def
          /\ lastOp'.op = "activate" /\ lastOp'.ws = w) =>
         IF variant = "spread"
         THEN /\ lastOp'.picked
              /\ workspaceState'[w].def
              /\ usedIndices'.def /\ Last(usedIndices'.val) = workspaceState'[w].val
              /\ applied'[w] = workspaceState'[w]
              /\ Shows(colorCustomizations'[w], workspaceState'[w].val)
         ELSE IF variant = "decoration"
         THEN Truthy(name[w]) =>
                /\ decoration' =
                     Some(PALETTE(variant)[colorIndexForName(variant, name[w].val) + 1][1])
                /\ ~workspaceState'[w].def
         ELSE Truthy(name[w]) =>
                /\ applied'[w] = Some(colorIndexForName(variant, name[w].val))
                /\ Shows(colorCustomizations'[w],
                         colorIndexForName(variant, name[w].val))
                /\ ~workspaceState'[w].def]_vars

\* spread variant: window 1 made both picks by activation, so its color was
\* cleared in between, and the second pick is stored, last in the history
\* and shown
C17_Witness ==
  /\ variant = "spread"
  /\ lastOp = Op("activate", 1, TRUE, FALSE)
  /\ picks = 2 /\ ~registered[2]
  /\ Len(usedIndices.val) = 2
  /\ workspaceState[1] = Some(Last(usedIndices.val))
  /\ ShowsEntry(1, workspaceState[1].val)

(***************************************************************************)
(* Status indicator.                                                       *)
(***************************************************************************)
\* C18: in the variants with a status bar item, while a color applied by
\* activation or reroll has not been cleared, the item is visible and its
\* text names the palette entry applied; the item is hidden only while the
\* color is cleared.
C18_StatusItemTracksColor ==
  (variant \in {"status", "worktree"} /\ registered[1]) =>
    /\ applied[1].def =>
         /\ statusItem.def
         /\ statusItem.val.visible
         /\ statusItem.val.text = StatusText(variant, applied[1].val)
    /\ (statusItem.def /\ ~statusItem.val.visible) => ~applied[1].def

====
